---- MODULE Spec2Model ----
(***************************************************************************)
(* OctopusLite: timelapse acquisition scheduler (acquire.py), ProScan      *)
(* stage controller (prior.py) and serial channel / timer (utils.py).      *)
(*                                                                         *)
(* The sources are Python 2 (t.keys()[0], str written to the serial port). *)
(* Python semantics are kept as they are: a call with a missing argument   *)
(* raises TypeError, an attribute missing on an object raises              *)
(* AttributeError, and an exception nobody catches ends the program.       *)
(* acquire.py lines 231 and 244 read "for acq in self.positions if         *)
(* acq.active:", which is not Python; they are read as the loop over the   *)
(* positions whose active property is true.                                *)
(*                                                                         *)
(* The specifications share the variables:                                 *)
(*   Spec      the program: acquire(manager) of acquire.py, from line 371, *)
(*             and its round loop (lines 395-414) entered on its own;      *)
(*   SpecSlot  the operations of AcquisitionObject and AcquisitionManager  *)
(*             called one after the other by a client;                     *)
(*   SpecCtl   the operations of a ProScanController on an open channel    *)
(*             whose responses are scripted;                               *)
(*   SpecChan  SerialWrapper, the TTL pulse and the joystick commands on a *)
(*             port with its output and input buffers;                     *)
(*   SpecStage a PriorStage object and its setters;                        *)
(*   SpecPace  the round loop of acquire(manager) with the time kept and a *)
(*             manager whose acquire() returns (SpecPaceFair: the program  *)
(*             keeps running);                                             *)
(*   SpecTimer one Timeout object, read while time passes and the system   *)
(*             clock is set;                                               *)
(*   SpecIntr  SpecSlot with the process interrupted from outside.         *)
(***************************************************************************)
EXTENDS Integers, Sequences, FiniteSets, TLC

\* ------------------------------------------------------------- bounds
MaxSlots  == 2      \* positions in the plan: 0..MaxSlots
MaxRounds == 2      \* num_images: 0..MaxRounds
MaxTrig   == 2      \* triggers in the sequence: 0..MaxTrig
MaxCalls  == 2      \* operations one client issues in SpecSlot
MaxPolls  == 3      \* busy queries the loop of one goto may issue in SpecCtl
MaxOps    == 1      \* operations one client issues in SpecCtl
MaxStep   == 2      \* seconds that may pass during one busy query
MaxTime   == 3      \* seconds that pass in SpecTimer
MaxSkew   == 2      \* seconds the system clock may be off after being set
MaxReads  == 2      \* reads of Timeout.active in SpecTimer

\* ------------------------------------------------ program constants
DEVICE_OK       == "0\r"
TimeoutDefault  == 5
NumTTLPins      == 4
STAGE_AXES      == <<"X", "Y", "Z", "S">>
DataFolder      == "data"

\* stage positions (x, y, z) in device units, as build_positions converts them
StagePositions  == {<<0, 0, 0>>, <<10, -20, 35>>}

VARIABLES
    entry,      \* Spec: "main" (acquire(manager) from line 371) or "loop" (line 395)
    pc,         \* control point of the running program or client
    exc,        \* the exception that ended the program, "none" while it runs
    nPos,       \* len(manager.positions)
    numImages,  \* manager.num_images, copied to every acq.num_images
    nTrig,      \* len(manager._triggers), shared by every slot
    position,   \* acq.position of every slot
    counter,    \* acq._counter of every slot
    cache,      \* acq.cache of every slot: a sequence of <<filename, image>>
    written,    \* calls of tifffile.imwrite(fn, image), in order
    events,     \* in order: <<"move", position>> for stage_controller.goto(position),
                \* <<"trigger", slot id, trigger index>> for trigger()
    visitLog,   \* the log line of goto_and_acquire: <<id, image_num, num_images>>
    rounds,     \* Timeout objects created by the round loop (line 398)
    call,       \* the operation in progress
    calls,      \* operations the client has issued
    sent,       \* the byte strings handed to serial.write, in order
    ctl,        \* the ProScanController: "none", "ready" or "failed"
    now,        \* time.time()
    tmo,        \* the Timeout object of the goto in progress: its _start
    polls,      \* the values of self.busy read by the goto in progress
    axesLog,    \* the axes the last busy query logged as still moving
    gotoLog,    \* how each goto ended
    ret,        \* the last value get_serial_answer returned
    pathSet,    \* whether a client assigned acq.path (it is None after __init__)
    last,       \* the operation that returned last
    tx,         \* the port's output buffer: commands written, not yet transmitted
    rx,         \* the port's input buffer: the response lines that have arrived
    chanLog,    \* the calls made on the serial.Serial object, in order
    errLog,     \* the messages the port, joystick and stage operations of SpecChan
                \* and SpecStage give to logger.error, in order
    stage,      \* a PriorStage object: its attributes
    delay,      \* manager.delay_s
    roundLog,   \* time.time() at each Timeout the round loop created (line 398)
    mono,       \* the seconds that have really passed since the Timeout of
                \* SpecTimer was created, whatever the system clock was set to
    activeLog   \* the values of Timeout.active read in SpecTimer, in order

vars == <<entry, pc, exc, nPos, numImages, nTrig, position, counter, cache,
          written, events, visitLog, rounds, call, calls, sent, ctl,
          now, tmo, polls, axesLog, gotoLog, ret, pathSet, last,
          tx, rx, chanLog, errLog, stage, delay, roundLog, mono, activeLog>>

cliVars   == <<call, calls, last>>
schedVars == <<nPos, numImages, nTrig, position, counter, cache, written,
               events, visitLog, rounds, pathSet>>
ctlVars   == <<now, tmo, polls, axesLog, gotoLog>>
portVars  == <<tx, rx, chanLog>>
timerVars == <<mono, activeLog>>
extVars   == <<portVars, errLog, stage, delay, roundLog, timerVars>>

Slots == 0 .. (nPos - 1)
NoCall == [op |-> "none"]

\* ------------------------------------------------------ acquire.py

\* image_filename: "{0:03d}" pads with zeros to at least w digits
RECURSIVE ZeroPad(_, _)
ZeroPad(str, w) == IF Len(str) >= w THEN str ELSE ZeroPad("0" \o str, w)

Fmt(n, w) == ZeroPad(ToString(n), w)

image_filenameMutNoTime(im_num, pos_num, channel_num, z_num) ==
    "img_channel" \o Fmt(channel_num, 3) \o "_position" \o Fmt(pos_num, 3)
        \o "_time" \o Fmt(z_num, 9) \o "_z" \o Fmt(z_num, 3) \o ".tif"

\* image_filename, lines 39-46
image_filename(im_num, pos_num, channel_num, z_num) ==
    "img_channel" \o Fmt(channel_num, 3) \o "_position" \o Fmt(pos_num, 3)
        \o "_time" \o Fmt(im_num, 9) \o "_z" \o Fmt(z_num, 3) \o ".tif"

\* os.path.join of two relative components
PathJoin(a, b) == IF a = "" THEN b ELSE a \o "/" \o b

\* AcquisitionObject.folder
Folder(s) == PathJoin(DataFolder, "Pos" \o ToString(s))

ActiveMutLe(s) == counter[s] <= numImages

\* AcquisitionObject.active
Active(s) == counter[s] < numImages

\* AcquisitionManager.active
ManagerActive == \E s \in Slots : Active(s)

\* the positions a filtered loop (lines 231, 244) visits, in list order
ActiveSlots == {s \in Slots : Active(s)}

MinOf(S) == CHOOSE m \in S : \A x \in S : m <= x

\* a plan as load_config builds it: build_positions gives slot pos_id the
\* id pos_id, counter 0, an empty cache and the manager's num_images
InitPlan ==
    /\ nPos \in 0 .. MaxSlots
    /\ numImages \in 0 .. MaxRounds
    /\ nTrig \in 0 .. MaxTrig
    /\ position \in [0 .. (nPos - 1) -> StagePositions]
    /\ counter = [s \in 0 .. (nPos - 1) |-> 0]
    /\ cache = [s \in 0 .. (nPos - 1) |-> <<>>]
    /\ written = <<>>
    /\ events = <<>>
    /\ visitLog = <<>>
    /\ rounds = 0

InitClient ==
    /\ call = NoCall
    /\ calls = 0
    /\ last = "none"

InitCtlIdle ==
    /\ now = 0
    /\ tmo = 0
    /\ polls = <<>>
    /\ axesLog = {}
    /\ gotoLog = <<>>

NoStage == [axis |-> "None", attrs |-> {}]

\* nothing written to a port, no stage object, no pacing
InitExt ==
    /\ tx = <<>>
    /\ rx = <<>>
    /\ chanLog = <<>>
    /\ errLog = <<>>
    /\ stage = NoStage
    /\ delay = 0
    /\ roundLog = <<>>
    /\ mono = 0
    /\ activeLog = <<>>

\* an exception nobody catches: acquire.py and prior.py hold no try statement
Raise(e) == pc' = "crashed" /\ exc' = e

\* ------------------------------------------------------- utils.py

EndsWithCR(cmd) == Len(cmd) > 0 /\ SubSeq(cmd, Len(cmd), Len(cmd)) = "\r"

\* SerialWrapper.send_serial_command: what is handed to serial.write
Terminate(cmd) == IF EndsWithCR(cmd) THEN cmd ELSE cmd \o "\r"

Send(cmd) == sent' = Append(sent, Terminate(cmd))

\* SerialWrapper.get_serial_answer: readline gives a line, or "" when the
\* port's read timeout (1 s) passes; when readline raises, the handler logs
\* and "return answer" reads a name never bound
ReadFailed == "<readline raised>"
ErrRead == "UnboundLocalError: local variable 'answer' referenced before assignment"

\* ------------------------------------------------------- prior.py

ErrNotStandard == "Exception: ProScan controller is not in Standard mode"
ErrDeprecated  == "DeprecationWarning: Use prior.TTL"
ErrMoveFailed  == "Exception: Stage move failed"

CompResponses == {DEVICE_OK, "", "1\r", "R\r"}

HandshakeFailsMutInverted(r) == r = DEVICE_OK

\* ProScanController.__init__: the test of the COMP response
HandshakeFails(r) == r # DEVICE_OK

\* ------------------------------------------- the program (Spec)

ErrGotoArgs   == "TypeError: goto() takes exactly 2 arguments (1 given)"
ErrBoolGoto   == "AttributeError: 'bool' object has no attribute 'goto'"
ErrPathNone   == "AttributeError: 'NoneType' object has no attribute 'endswith'"
ErrTrigger    == "Exception: trigger failed"

\* acquire(manager), lines 374-381: the folders, micromanager and the logger
\* are set up, then prior.ProScanController() opens the port and sends COMP
MainStart ==
    /\ pc = "start" /\ entry = "main"
    /\ Send("COMP")
    /\ pc' = "comp"
    /\ UNCHANGED <<entry, extVars, exc, schedVars, ctlVars, cliVars, ctl, ret>>

\* ProScanController.__init__, lines 80-88: the response to COMP is read and
\* tested; the program passes no devices, so the loop of line 87 is empty
MainHandshake ==
    /\ pc = "comp"
    /\ \E r \in CompResponses \cup {ReadFailed} :
        /\ ret' = r
        /\ IF r = ReadFailed
              THEN Raise(ErrRead) /\ ctl' = "failed"
              ELSE IF HandshakeFails(r)
                     THEN Raise(ErrNotStandard) /\ ctl' = "failed"
                     ELSE pc' = "ttl_reset" /\ UNCHANGED <<exc, ctl>>
    /\ UNCHANGED <<entry, extVars, schedVars, ctlVars, cliVars, sent>>

\* ProScanController.__init__, lines 91-92: self.ttl(pin=0, state=False);
\* ttl raises DeprecationWarning before it calls TTL
MainTTLReset ==
    /\ pc = "ttl_reset"
    /\ Raise(ErrDeprecated) /\ ctl' = "failed"
    /\ UNCHANGED <<entry, extVars, schedVars, ctlVars, cliVars, sent, ret>>

\* acquire(manager), lines 395-398 and 413-414: the test of the round loop.
\* While a slot is active a Timeout is created and manager.acquire() is
\* called; otherwise write_logs calls write_log of every slot, which joins
\* acq.path (None) with "log.txt"
LoopTest ==
    /\ pc = "start" /\ entry = "loop"
    /\ IF ManagerActive
          THEN /\ rounds' = rounds + 1
               /\ pc' = "mgr_acquire"
               /\ UNCHANGED exc
          ELSE /\ UNCHANGED rounds
               /\ IF nPos > 0 THEN Raise(ErrPathNone)
                              ELSE pc' = "done" /\ UNCHANGED exc
    /\ UNCHANGED <<entry, extVars, nPos, numImages, nTrig, position, counter, cache,
                   written, events, visitLog, pathSet, ctlVars, cliVars, sent, ctl, ret>>

\* AcquisitionObject.goto_and_acquire: the log line, then self.goto() without
\* the proscan argument goto(self, proscan) requires
GotoAndAcquire(s) ==
    /\ visitLog' = Append(visitLog, <<s, counter[s], numImages>>)
    /\ Raise(ErrGotoArgs)

\* AcquisitionManager.acquire: the active slots in list order, then the rest
\* position: active is a list of booleans, and active[0].goto() is called
\* when the list is not empty
MgrAcquire ==
    /\ pc = "mgr_acquire"
    /\ IF ActiveSlots # {}
          THEN GotoAndAcquire(MinOf(ActiveSlots))
          ELSE /\ UNCHANGED visitLog
               /\ IF nPos > 0 THEN Raise(ErrBoolGoto)
                              ELSE pc' = "idle" /\ UNCHANGED exc
    /\ UNCHANGED <<entry, extVars, nPos, numImages, nTrig, position, counter, cache,
                   written, events, rounds, pathSet, ctlVars, cliVars, sent, ctl, ret>>

Init ==
    /\ InitExt
    /\ entry \in {"main", "loop"}
    /\ pc = "start"
    /\ exc = "none"
    /\ InitPlan
    /\ InitClient
    /\ pathSet = FALSE
    /\ InitCtlIdle
    /\ sent = <<>>
    /\ ctl = "none"
    /\ ret = "none"

Next ==
    \/ MainStart
    \/ MainHandshake
    \/ MainTTLReset
    \/ LoopTest
    \/ MgrAcquire

Spec == Init /\ [][Next]_vars

\* --------------------- the slot and manager operations (SpecSlot)

\* AcquisitionObject.acquire, lines 123-124: the path of one image
ChannelFn(s, t, im_num) == PathJoin(Folder(s), image_filename(im_num, s, t, 0))

GotoRaisesMutPolarity(b, act) == b /\ act

\* ProScanController.goto, line 111: the test after the polling loop, on the
\* values of self.busy and timeout.active read there
GotoRaises(b, act) == b /\ ~act

\* AcquisitionObject.goto(proscan): self._stage_controller.goto(self.position).
\* The controller's goto is taken here by what its last test reads; SpecCtl
\* has its polling
ObjGoto(s) ==
    /\ pc = "idle" /\ calls < MaxCalls
    /\ events' = Append(events, <<"move", position[s]>>)
    /\ \E b \in BOOLEAN, act \in BOOLEAN :
        /\ gotoLog' = Append(gotoLog, [pos |-> position[s], loop |-> <<>>,
                                       busy |-> b, active |-> act,
                                       raised |-> GotoRaises(b, act)])
        /\ IF GotoRaises(b, act)
              THEN Raise(ErrMoveFailed) /\ UNCHANGED last
              ELSE last' = "goto" /\ UNCHANGED <<pc, exc>>
    /\ calls' = calls + 1
    /\ UNCHANGED <<entry, extVars, nPos, numImages, nTrig, position, counter, cache,
                   written, visitLog, rounds, pathSet, call, sent,
                   ctl, now, tmo, polls, axesLog, ret>>

\* AcquisitionObject.acquire is entered
ObjAcquireStart(s) ==
    /\ pc = "idle" /\ calls < MaxCalls
    /\ pc' = "acq"
    /\ call' = [op |-> "acquire", slot |-> s, t |-> 0, n |-> counter[s]]
    /\ calls' = calls + 1
    /\ UNCHANGED <<entry, extVars, exc, schedVars, ctlVars, sent, ctl, ret, last>>

\* AcquisitionObject.acquire, lines 121-125: one pass of the loop over the
\* triggers: the trigger is called, the filename is made from image_num, id
\* and the trigger's index, joined to self.folder (which joins self.path)
\* and appended with the image to the cache. A trigger is a callable of the
\* triggers module: it returns an image or raises, and nothing here catches
ObjAcquireTrigger ==
    /\ pc = "acq" /\ call.t < nTrig
    /\ events' = Append(events, <<"trigger", call.slot, call.t>>)
    /\ \E raised \in BOOLEAN :
          IF raised
            THEN /\ Raise(ErrTrigger)
                 /\ UNCHANGED <<cache, call>>
            ELSE IF pathSet
              THEN /\ cache' = [cache EXCEPT ![call.slot] =
                        Append(@, <<ChannelFn(call.slot, call.t, counter[call.slot]),
                                    Len(events) + 1>>)]
                   /\ call' = [call EXCEPT !.t = @ + 1]
                   /\ UNCHANGED <<pc, exc>>
              ELSE /\ Raise(ErrPathNone)
                   /\ UNCHANGED <<cache, call>>
    /\ UNCHANGED <<entry, extVars, nPos, numImages, nTrig, position, counter, written,
                   visitLog, rounds, pathSet, calls, last, ctlVars,
                   sent, ctl, ret>>

\* AcquisitionObject.acquire, line 127: the counter after the last trigger
ObjAcquireDone ==
    /\ pc = "acq" /\ call.t = nTrig
    /\ counter' = [counter EXCEPT ![call.slot] = @ + 1]
    /\ pc' = "idle"
    /\ call' = NoCall
    /\ last' = "acquire"
    /\ UNCHANGED <<entry, extVars, exc, nPos, numImages, nTrig, position, cache,
                   written, events, visitLog, rounds, pathSet, calls,
                   ctlVars, sent, ctl, ret>>

\* AcquisitionObject.goto_and_acquire called by a client
ObjGotoAndAcquire(s) ==
    /\ pc = "idle" /\ calls < MaxCalls
    /\ GotoAndAcquire(s)
    /\ calls' = calls + 1
    /\ UNCHANGED <<entry, extVars, nPos, numImages, nTrig, position, counter, cache,
                   written, events, rounds, pathSet, call, last,
                   ctlVars, sent, ctl, ret>>

\* AcquisitionObject.write_images: the cache is popped from the front and
\* each pair handed to tifffile.imwrite until the cache is empty
ObjWriteImages(s) ==
    /\ pc = "idle" /\ calls < MaxCalls
    /\ written' = written \o cache[s]
    /\ cache' = [cache EXCEPT ![s] = <<>>]
    /\ calls' = calls + 1
    /\ last' = "write_images"
    /\ UNCHANGED <<entry, extVars, pc, exc, nPos, numImages, nTrig, position, counter,
                   events, visitLog, rounds, pathSet, call, ctlVars,
                   sent, ctl, ret>>

\* the caches of the slots of S, in list order
RECURSIVE CachesOf(_)
CachesOf(S) == IF S = {} THEN <<>>
               ELSE cache[MinOf(S)] \o CachesOf(S \ {MinOf(S)})

\* AcquisitionManager.write_image, line 244: the slots whose write_images runs
DrainedSlots == ActiveSlots

\* AcquisitionManager.write_image
MgrWriteImage ==
    /\ pc = "idle" /\ calls < MaxCalls
    /\ written' = written \o CachesOf(DrainedSlots)
    /\ cache' = [s \in Slots |-> IF s \in DrainedSlots THEN <<>> ELSE cache[s]]
    /\ calls' = calls + 1
    /\ last' = "write_image"
    /\ UNCHANGED <<entry, extVars, pc, exc, nPos, numImages, nTrig, position, counter,
                   events, visitLog, rounds, pathSet, call, ctlVars,
                   sent, ctl, ret>>

\* AcquisitionManager.acquire called by a client
ClientMgrAcquire ==
    /\ pc = "idle" /\ calls < MaxCalls
    /\ pc' = "mgr_acquire"
    /\ calls' = calls + 1
    /\ UNCHANGED <<entry, extVars, exc, schedVars, ctlVars, call, last, sent, ctl, ret>>

\* a client holds a manager as load_config built it, with a stage controller
\* attached to the slots, and has or has not assigned the slots' path
InitSlot ==
    /\ InitExt
    /\ entry = "client"
    /\ pc = "idle"
    /\ exc = "none"
    /\ InitPlan
    /\ InitClient
    /\ pathSet \in BOOLEAN
    /\ InitCtlIdle
    /\ sent = <<>>
    /\ ctl = "ready"
    /\ ret = "none"

NextSlot ==
    \/ \E s \in Slots : ObjGoto(s)
    \/ \E s \in Slots : ObjAcquireStart(s)
    \/ ObjAcquireTrigger
    \/ ObjAcquireDone
    \/ \E s \in Slots : ObjGotoAndAcquire(s)
    \/ \E s \in Slots : ObjWriteImages(s)
    \/ MgrWriteImage
    \/ ClientMgrAcquire
    \/ MgrAcquire

SpecSlot == InitSlot /\ [][NextSlot]_vars

\* ---------------- the controller on an open channel (SpecCtl)

ErrValue == "ValueError: invalid literal for int() with base 10"

CharAt(str, i) == SubSeq(str, i, i)

IsSpace(c) == c \in {" ", "\t", "\n", "\r"}

\* str.split(): the maximal runs of characters that are not whitespace
RECURSIVE SplitFrom(_, _, _, _)
SplitFrom(str, i, cur, acc) ==
    IF i > Len(str)
      THEN IF cur = "" THEN acc ELSE Append(acc, cur)
      ELSE IF IsSpace(CharAt(str, i))
             THEN SplitFrom(str, i + 1, "", IF cur = "" THEN acc ELSE Append(acc, cur))
             ELSE SplitFrom(str, i + 1, cur \o CharAt(str, i), acc)

Split(str) == SplitFrom(str, 1, "", <<>>)

Digits == <<"0", "1", "2", "3", "4", "5", "6", "7", "8", "9">>

IsDigit(c) == \E d \in 1 .. 10 : Digits[d] = c

DigitValue(c) == (CHOOSE d \in 1 .. 10 : Digits[d] = c) - 1

RECURSIVE DigitsValue(_, _, _)
DigitsValue(tok, i, acc) ==
    IF i > Len(tok) THEN acc
    ELSE DigitsValue(tok, i + 1, 10 * acc + DigitValue(CharAt(tok, i)))

\* int(token) of a token split() gave: an optional sign and decimal digits,
\* anything else is a ValueError
IsInt(tok) ==
    LET body == IF CharAt(tok, 1) \in {"-", "+"} THEN SubSeq(tok, 2, Len(tok)) ELSE tok
    IN  Len(body) > 0 /\ \A i \in 1 .. Len(body) : IsDigit(CharAt(body, i))

IntOf(tok) ==
    IF CharAt(tok, 1) = "-" THEN 0 - DigitsValue(tok, 2, 0)
    ELSE IF CharAt(tok, 1) = "+" THEN DigitsValue(tok, 2, 0)
    ELSE DigitsValue(tok, 1, 0)

RECURSIVE SumSeq(_)
SumSeq(q) == IF q = <<>> THEN 0 ELSE Head(q) + SumSeq(Tail(q))

\* ProScanController.busy, line 151: every token is an int
BusyParses(r) == \A i \in 1 .. Len(Split(r)) : IsInt(Split(r)[i])

\* ProScanController.busy, lines 151-152: the sum of the axis values
BusyStatus(r) == SumSeq([i \in 1 .. Len(Split(r)) |-> IntOf(Split(r)[i])])

\* ProScanController.busy, lines 153-154 and 163: the value returned
BusyValue(r) == BusyStatus(r) # 0

RECURSIVE Pow2(_)
Pow2(n) == IF n = 0 THEN 1 ELSE 2 * Pow2(n - 1)

\* bin(status + 64)[::-1][i] for i in 0..2: the binary digit of weight 2^i
MovingChar(status, i) ==
    IF ((status + 64) \div Pow2(i)) % 2 = 1 THEN "1" ELSE "0"

\* line 160, moving[i] > 0: a str compared with an int. CPython 2 orders a
\* number before an object of any other type, whatever their values
StrGreaterThanInt(c, n) == TRUE

\* ProScanController.busy, lines 158-161: the axes logged as still moving
LoggedAxes(r) ==
    IF BusyValue(r)
      THEN {STAGE_AXES[i + 1] : i \in {j \in 0 .. 2 :
                StrGreaterThanInt(MovingChar(BusyStatus(r), j), 0)}}
      ELSE {}

\* Timeout.elapsed and Timeout.active, at time t
Elapsed(start, t) == t - start
TimeoutActiveMutNever(start, t, timeout_seconds) == FALSE

\* Timeout.active
TimeoutActive(start, t, timeout_seconds) == Elapsed(start, t) < timeout_seconds

MoveCommandMutYX(p) ==
    "G " \o ToString(p[2]) \o ", " \o ToString(p[1]) \o ", " \o ToString(p[3])

\* ProScanController.goto, lines 98 and 103: the command of an absolute move
MoveCommand(p) ==
    "G " \o ToString(p[1]) \o ", " \o ToString(p[2]) \o ", " \o ToString(p[3])

\* what the scripted device answers
AckResponses  == {DEVICE_OK, "", "R\r"}
BusyResponses == {"0\r", "", "0 0 0\r", "1\r", "2 4\r", "1 2 4\r", "E\r"}

\* busy's reading of every scripted response, computed once
BusyOf == [r \in BusyResponses |->
              IF BusyParses(r)
                THEN [parses |-> TRUE, status |-> BusyStatus(r),
                      value |-> BusyValue(r), axes |-> LoggedAxes(r)]
                ELSE [parses |-> FALSE, status |-> 0, value |-> FALSE, axes |-> {}]]

\* ProScanController.goto, lines 98-103: the move command is sent
CtlGotoStart(p) ==
    /\ pc = "idle" /\ calls < MaxOps
    /\ Send(MoveCommand(p))
    /\ pc' = "g_ack"
    /\ call' = [op |-> "goto", pos |-> p, queries |-> 0, exitActive |-> TRUE]
    /\ calls' = calls + 1
    /\ polls' = <<>>
    /\ UNCHANGED <<entry, extVars, exc, schedVars, last, ctl, now, tmo, axesLog,
                   gotoLog, ret>>

\* ProScanController.goto, lines 103-106: the response to the move command
\* is read and dropped, and the Timeout of the move is created
CtlGotoAck ==
    /\ pc = "g_ack"
    /\ \E r \in AckResponses \cup {ReadFailed} :
        /\ ret' = r
        /\ IF r = ReadFailed
              THEN Raise(ErrRead) /\ UNCHANGED tmo
              ELSE pc' = "g_loop" /\ tmo' = now /\ UNCHANGED exc
    /\ UNCHANGED <<entry, extVars, schedVars, cliVars, ctl, sent, now, polls, axesLog,
                   gotoLog>>

\* one evaluation of self.busy: "$" is sent and the response read, while d
\* seconds pass
BusyQuery(r, d) ==
    /\ Send("$")
    /\ ret' = r
    /\ now' = now + d

\* ProScanController.goto, lines 107-108: one test of the polling loop,
\* "self.busy and timeout.active", and the sleep when it is true
CtlGotoPoll ==
    /\ pc = "g_loop" /\ Len(polls) < MaxPolls
    /\ \E r \in BusyResponses \cup {ReadFailed}, d \in 0 .. MaxStep :
        /\ BusyQuery(r, d)
        /\ IF r = ReadFailed
              THEN Raise(ErrRead) /\ UNCHANGED <<polls, axesLog, call>>
              ELSE IF ~BusyOf[r].parses
                THEN Raise(ErrValue) /\ UNCHANGED <<polls, axesLog, call>>
                ELSE /\ polls' = Append(polls, BusyOf[r].value)
                     /\ axesLog' = BusyOf[r].axes
                     /\ UNCHANGED exc
                     /\ LET act == TimeoutActive(tmo, now', TimeoutDefault) IN
                        /\ call' = [call EXCEPT !.queries = @ + 1, !.exitActive = act]
                        /\ pc' = IF BusyOf[r].value /\ act THEN "g_loop" ELSE "g_check"
    /\ UNCHANGED <<entry, extVars, schedVars, calls, last, ctl, tmo, gotoLog>>

\* ProScanController.goto, lines 111-113: "self.busy and not timeout.active"
\* after the loop: the busy status is read once more
CtlGotoCheck ==
    /\ pc = "g_check"
    /\ \E r \in BusyResponses \cup {ReadFailed}, d \in 0 .. MaxStep :
        /\ BusyQuery(r, d)
        /\ IF r = ReadFailed
              THEN Raise(ErrRead) /\ UNCHANGED <<polls, axesLog, call, gotoLog, last>>
              ELSE IF ~BusyOf[r].parses
                THEN Raise(ErrValue) /\ UNCHANGED <<polls, axesLog, call, gotoLog, last>>
                ELSE LET b   == BusyOf[r].value
                         act == TimeoutActive(tmo, now', TimeoutDefault)
                     IN /\ polls' = Append(polls, b)
                        /\ axesLog' = BusyOf[r].axes
                        /\ gotoLog' = Append(gotoLog,
                              [pos |-> call.pos, loop |-> polls, busy |-> b,
                               active |-> act, raised |-> GotoRaises(b, act),
                               queries |-> call.queries + 1,
                               exitActive |-> call.exitActive])
                        /\ call' = NoCall
                        /\ IF GotoRaises(b, act)
                              THEN Raise(ErrMoveFailed) /\ UNCHANGED last
                              ELSE pc' = "idle" /\ last' = "goto" /\ UNCHANGED exc
    /\ UNCHANGED <<entry, extVars, schedVars, calls, ctl, tmo>>

\* a client reads the busy property
CtlBusy ==
    /\ pc = "idle" /\ calls < MaxOps
    /\ \E r \in BusyResponses \cup {ReadFailed}, d \in 0 .. MaxStep :
        /\ BusyQuery(r, d)
        /\ IF r = ReadFailed
              THEN Raise(ErrRead) /\ UNCHANGED <<polls, axesLog, last>>
              ELSE IF ~BusyOf[r].parses
                THEN Raise(ErrValue) /\ UNCHANGED <<polls, axesLog, last>>
                ELSE /\ polls' = <<BusyOf[r].value>>
                     /\ axesLog' = BusyOf[r].axes
                     /\ last' = "busy"
                     /\ UNCHANGED <<pc, exc>>
    /\ calls' = calls + 1
    /\ UNCHANGED <<entry, extVars, schedVars, call, ctl, tmo, gotoLog>>

\* a controller whose port is open, and no plan
InitCtl ==
    /\ InitExt
    /\ entry = "client"
    /\ pc = "idle"
    /\ exc = "none"
    /\ nPos = 0 /\ numImages = 0 /\ nTrig = 0
    /\ position = <<>> /\ counter = <<>> /\ cache = <<>>
    /\ written = <<>> /\ events = <<>> /\ visitLog = <<>> /\ rounds = 0
    /\ pathSet = FALSE
    /\ InitClient
    /\ InitCtlIdle
    /\ sent = <<>>
    /\ ctl = "ready"
    /\ ret = "none"

NextCtl ==
    \/ \E p \in StagePositions : CtlGotoStart(p)
    \/ CtlGotoAck
    \/ CtlGotoPoll
    \/ CtlGotoCheck
    \/ CtlBusy

SpecCtl == InitCtl /\ [][NextCtl]_vars

\* ----------------- the serial port and the TTL pulse (SpecChan)

\* serial.Serial.write raises SerialTimeoutException when the bytes were not
\* all written, and SerialException when the port has failed
WriteOutcomes == {"ok", "timeout", "error"}

ErrSerialWrite == "SerialException: write failed"
ErrSerialRead  == "SerialException: read failed"
ErrAssert      == "AssertionError"
LogWriteTimeout == "Serial write timeout"
LogReadFailed   == "Serial read failed"

\* commands a caller hands to send_serial_command, with and without "\r"
RawCommands == {"G 0, 0, 0", "P\r", "$\r\r"}

\* the lines the controller answers a command with
DevResponses == {DEVICE_OK, "R\r"}

\* SerialWrapper.send_serial_command, lines 57-62: the command is terminated
\* and handed to serial.write; a SerialTimeoutException is logged and the
\* function returns, any other exception leaves the function
WriteCommand(cmd, outcome) ==
    /\ Send(cmd)
    /\ chanLog' = Append(chanLog, [op |-> IF outcome = "ok" THEN "write"
                                           ELSE IF outcome = "timeout" THEN "write_timeout"
                                           ELSE "write_error",
                                   k |-> Len(sent) + 1])
    /\ tx' = IF outcome = "ok" THEN Append(tx, Len(sent) + 1) ELSE tx
    /\ errLog' = IF outcome = "timeout" THEN Append(errLog, LogWriteTimeout) ELSE errLog

WriteRaises(outcome) == outcome = "error"

\* SerialWrapper.send_serial_command called on its own
ChanSend(cmd) ==
    /\ pc = "idle" /\ calls < MaxCalls
    /\ \E outcome \in WriteOutcomes :
        /\ WriteCommand(cmd, outcome)
        /\ IF WriteRaises(outcome)
              THEN Raise(ErrSerialWrite) /\ UNCHANGED last
              ELSE last' = "send" /\ UNCHANGED <<pc, exc>>
    /\ call' = [op |-> "send", at |-> Len(chanLog)]
    /\ calls' = calls + 1
    /\ UNCHANGED <<entry, schedVars, ctlVars, ctl, ret, rx, stage, delay, roundLog, timerVars>>

\* SerialWrapper.send_and_receive_serial_command, line 77
ChanSendRecvStart(cmd) ==
    /\ pc = "idle" /\ calls < MaxCalls
    /\ \E outcome \in WriteOutcomes :
        /\ WriteCommand(cmd, outcome)
        /\ IF WriteRaises(outcome)
              THEN Raise(ErrSerialWrite)
              ELSE pc' = "sr_read" /\ UNCHANGED exc
    /\ call' = [op |-> "send_and_receive", at |-> Len(chanLog)]
    /\ calls' = calls + 1
    /\ UNCHANGED <<entry, schedVars, ctlVars, ctl, ret, rx, stage, delay, roundLog, timerVars, last>>

\* SerialWrapper.get_serial_answer, lines 69-74: readline gives the first
\* line of the input buffer, "" when none arrives within the read timeout;
\* when it raises, the handler logs and "return answer" raises in turn
ChanSendRecvRead ==
    /\ pc = "sr_read"
    /\ \/ /\ rx # <<>>
          /\ ret' = Head(rx).line
          /\ rx' = Tail(rx)
          /\ chanLog' = Append(chanLog, [op |-> "read", line |-> Head(rx).line,
                                         of |-> Head(rx).of, k |-> call.at + 1])
          /\ pc' = "idle" /\ last' = "send_and_receive"
          /\ UNCHANGED <<exc, errLog>>
       \/ /\ rx = <<>>
          /\ ret' = ""
          /\ chanLog' = Append(chanLog, [op |-> "read", line |-> "", of |-> 0,
                                         k |-> call.at + 1])
          /\ pc' = "idle" /\ last' = "send_and_receive"
          /\ UNCHANGED <<exc, errLog, rx>>
       \/ /\ ret' = ReadFailed
          /\ chanLog' = Append(chanLog, [op |-> "read_failed", k |-> call.at + 1])
          /\ errLog' = Append(errLog, LogReadFailed)
          /\ Raise(ErrRead)
          /\ UNCHANGED <<rx, last>>
    /\ UNCHANGED <<entry, schedVars, ctlVars, ctl, sent, tx, call, calls, stage,
                   delay, roundLog, timerVars>>

TTLPinLimit == 4
TTLPins == {-1, 0, TTLPinLimit - 1, TTLPinLimit}

PinAcceptedMutInclusive(pin) == pin >= 0 /\ pin <= TTLPinLimit

\* ProScanController.TTL, line 121
PinAccepted(pin) == pin >= 0 /\ pin < TTLPinLimit

\* ProScanController.TTL, line 126
TTLCommand(pin, state) ==
    "TTL " \o ToString(pin) \o ", " \o (IF state THEN "1" ELSE "0")

\* ProScanController.TTL, lines 121-132: the assertion, then the command
CtlTTLStart(pin, state) ==
    /\ pc = "idle" /\ calls < MaxCalls
    /\ call' = [op |-> "TTL", at |-> Len(chanLog), pin |-> pin, state |-> state]
    /\ calls' = calls + 1
    /\ IF PinAccepted(pin)
          THEN \E outcome \in WriteOutcomes :
                  /\ WriteCommand(TTLCommand(pin, state), outcome)
                  /\ IF WriteRaises(outcome)
                        THEN Raise(ErrSerialWrite)
                        ELSE pc' = "ttl_flush" /\ UNCHANGED exc
          ELSE /\ Raise(ErrAssert)
               /\ UNCHANGED <<sent, tx, chanLog, errLog>>
    /\ UNCHANGED <<entry, schedVars, ctlVars, ctl, ret, rx, stage, delay, roundLog, timerVars, last>>

\* ProScanController.TTL, line 133, SerialWrapper.flush, line 66:
\* reset_output_buffer drops what the output buffer still holds and leaves
\* the input buffer as it is
CtlTTLFlush ==
    /\ pc = "ttl_flush"
    /\ tx' = <<>>
    /\ chanLog' = Append(chanLog, [op |-> "flush", k |-> 0,
                                   pending |-> {rx[i].of : i \in 1 .. Len(rx)}])
    /\ pc' = "idle" /\ last' = "TTL"
    /\ UNCHANGED <<entry, exc, schedVars, ctlVars, ctl, ret, sent, rx, errLog,
                   call, calls, stage, delay, roundLog, timerVars>>

\* the controller receives the oldest command of the output buffer and
\* answers it with one line (prior.py line 125: the TTL command too)
DevTransmit ==
    /\ pc # "crashed" /\ tx # <<>>
    /\ \E r \in DevResponses : rx' = Append(rx, [line |-> r, of |-> Head(tx)])
    /\ tx' = Tail(tx)
    /\ UNCHANGED <<entry, pc, exc, schedVars, ctlVars, cliVars, ctl, ret, sent,
                   chanLog, errLog, stage, delay, roundLog, timerVars>>

JoystickFailedText(cmd) ==
    IF cmd = "J" THEN "Joystick enable failed." ELSE "Joystick disable failed."

JoystickAckedMutAlways(r) == TRUE

\* enable_joystick and disable_joystick, lines 168 and 174
JoystickAcked(r) == r = DEVICE_OK

\* ProScanController.enable_joystick (cmd "J"), line 167, and
\* disable_joystick ("H"), line 173: the command is sent
CtlJoystickStart(cmd) ==
    /\ pc = "idle" /\ calls < MaxCalls
    /\ \E outcome \in WriteOutcomes :
        /\ WriteCommand(cmd, outcome)
        /\ IF WriteRaises(outcome)
              THEN Raise(ErrSerialWrite)
              ELSE pc' = "joy_read" /\ UNCHANGED exc
    /\ call' = [op |-> "joystick", at |-> Len(chanLog), cmd |-> cmd,
                errs |-> Len(errLog')]
    /\ calls' = calls + 1
    /\ UNCHANGED <<entry, schedVars, ctlVars, ctl, ret, rx, stage, delay, roundLog, timerVars, last>>

\* lines 167-169 and 173-175: the response is read and an error is logged
\* when it is not the acknowledgement; the function returns either way
CtlJoystickRead ==
    /\ pc = "joy_read"
    /\ \/ /\ rx # <<>>
          /\ ret' = Head(rx).line
          /\ rx' = Tail(rx)
          /\ chanLog' = Append(chanLog, [op |-> "read", line |-> Head(rx).line,
                                         of |-> Head(rx).of, k |-> call.at + 1])
          /\ errLog' = IF JoystickAcked(Head(rx).line) THEN errLog
                        ELSE Append(errLog, JoystickFailedText(call.cmd))
          /\ pc' = "idle" /\ last' = "joystick"
          /\ UNCHANGED exc
       \/ /\ rx = <<>>
          /\ ret' = ""
          /\ chanLog' = Append(chanLog, [op |-> "read", line |-> "", of |-> 0,
                                         k |-> call.at + 1])
          /\ errLog' = IF JoystickAcked("") THEN errLog
                        ELSE Append(errLog, JoystickFailedText(call.cmd))
          /\ pc' = "idle" /\ last' = "joystick"
          /\ UNCHANGED <<exc, rx>>
       \/ /\ ret' = ReadFailed
          /\ chanLog' = Append(chanLog, [op |-> "read_failed", k |-> call.at + 1])
          /\ errLog' = Append(errLog, LogReadFailed)
          /\ Raise(ErrRead)
          /\ UNCHANGED <<rx, last>>
    /\ UNCHANGED <<entry, schedVars, ctlVars, ctl, sent, tx, call, calls, stage,
                   delay, roundLog, timerVars>>

InitChan ==
    /\ entry = "port"
    /\ pc = "idle"
    /\ exc = "none"
    /\ nPos = 0 /\ numImages = 0 /\ nTrig = 0
    /\ position = <<>> /\ counter = <<>> /\ cache = <<>>
    /\ written = <<>> /\ events = <<>> /\ visitLog = <<>> /\ rounds = 0
    /\ InitClient
    /\ pathSet = FALSE
    /\ InitCtlIdle
    /\ InitExt
    /\ sent = <<>>
    /\ ctl = "ready"
    /\ ret = "none"

NextChan ==
    \/ \E cmd \in RawCommands : ChanSend(cmd)
    \/ \E cmd \in RawCommands : ChanSendRecvStart(cmd)
    \/ ChanSendRecvRead
    \/ \E pin \in TTLPins, state \in BOOLEAN : CtlTTLStart(pin, state)
    \/ CtlTTLFlush
    \/ \E cmd \in {"J", "H"} : CtlJoystickStart(cmd)
    \/ CtlJoystickRead
    \/ DevTransmit

SpecChan == InitChan /\ [][NextChan]_vars

\* ----------------------------- the stage objects (SpecStage)

\* H117EX_config and FB203E_config: the axis each names
StageConfigs == {"H117EX", "FB203E"}
ConfigAxis(cfg) == IF cfg = "H117EX" THEN "S" ELSE "Z"

\* the attributes a setter of PriorStage assigns
StageAttrs == {"_max_speed", "_acceleration", "_s_curve", "_encoders",
               "_backlash", "_servo"}

ErrNameMaxSpeed == "NameError: global name 'max_speed' is not defined"
ErrNameSCurve   == "NameError: global name 's_curve' is not defined"
ErrAxis         == "Exception"

\* values a client gives to the setters
RangeValues  == {0, 1, 100, 101}
WindowValues == {1, 2, 3}
AxisValues   == {"X", "S", "Q"}

PyBool(b) == IF b THEN "True" ELSE "False"
PyIntOfBool(b) == IF b THEN "1" ELSE "0"

\* PriorStage.__init__: the configuration is logged, no setter is called
\* (line 197 is a comment) and _axis is None
StageNew(cfg) ==
    /\ pc = "start" /\ entry = "stage"
    /\ stage' = [config |-> cfg, axis |-> "None",
                 attrs |-> [a \in StageAttrs |-> "unset"]]
    /\ pc' = "idle"
    /\ UNCHANGED <<entry, exc, schedVars, ctlVars, cliVars, ctl, ret, sent,
                   portVars, errLog, delay, roundLog, timerVars>>

SetFailsMutNever(r) == FALSE

\* PriorStage._set, line 202
SetFails(r) == r # DEVICE_OK

SetFailedText(cmd) == "Command: " \o cmd \o " failed."

\* PriorStage._set: the command is sent, its response read and tested
SetCommand(cmd, r) ==
    /\ Send(cmd)
    /\ ret' = r
    /\ IF r = ReadFailed
          THEN Raise(ErrRead) /\ errLog' = Append(errLog, LogReadFailed)
          ELSE IF SetFails(r)
                 THEN /\ Raise("Exception: " \o SetFailedText(cmd))
                      /\ errLog' = Append(errLog, SetFailedText(cmd))
                 ELSE UNCHANGED <<exc, errLog>>

SetReturns(r) == r # ReadFailed /\ ~SetFails(r)

Store(attr, v) == stage' = [stage EXCEPT !.attrs[attr] = v]

\* the assertions of lines 251, 258 and 265
RangeAccepted(v) == v > 0 /\ v <= 100

\* the assertion of line 286
WindowAccepted(v) == v > 1 /\ v <= 2

StageCallStart(param, v, r) ==
    /\ pc = "idle" /\ calls < MaxCalls
    /\ call' = [op |-> "set", param |-> param, value |-> v, r |-> r, n |-> Len(sent)]
    /\ calls' = calls + 1

\* the setter of max_speed, lines 250-254
StageSetMaxSpeed(v) ==
    \E r \in AckResponses \cup {ReadFailed} :
        /\ StageCallStart("max_speed", v, r)
        /\ IF ~RangeAccepted(v)
              THEN Raise(ErrAssert) /\ UNCHANGED <<sent, ret, errLog, stage, last>>
              ELSE /\ SetCommand("SM" \o stage.axis \o ", " \o ToString(v), r)
                   /\ IF SetReturns(r)
                         THEN /\ Store("_max_speed", ToString(v))
                              /\ last' = "set" /\ UNCHANGED pc
                         ELSE UNCHANGED <<stage, last>>
        /\ UNCHANGED <<entry, schedVars, ctlVars, ctl, portVars, delay, roundLog, timerVars>>

\* the setters of acceleration and s_curve, lines 257-268: the command is
\* formatted with max_speed, a name that is bound nowhere in these functions
StageSetAccelOrCurve(param, v) ==
    \E r \in AckResponses \cup {ReadFailed} :
        /\ StageCallStart(param, v, r)
        /\ IF ~RangeAccepted(v) THEN Raise(ErrAssert) ELSE Raise(ErrNameMaxSpeed)
        /\ UNCHANGED <<entry, schedVars, ctlVars, ctl, portVars, delay, roundLog, timerVars,
                       sent, ret, errLog, stage, last>>

\* the setter of encoder_window, lines 285-289: after the command is
\* acknowledged, line 289 reads s_curve, a name that is not bound
StageSetEncoderWindow(v) ==
    \E r \in AckResponses \cup {ReadFailed} :
        /\ StageCallStart("encoder_window", v, r)
        /\ IF ~WindowAccepted(v)
              THEN Raise(ErrAssert) /\ UNCHANGED <<sent, ret, errLog>>
              ELSE IF SetReturns(r)
                     THEN /\ Send("ENCW " \o stage.axis \o ", " \o ToString(v))
                          /\ ret' = r
                          /\ Raise(ErrNameSCurve)
                          /\ UNCHANGED errLog
                     ELSE SetCommand("ENCW " \o stage.axis \o ", " \o ToString(v), r)
        /\ UNCHANGED <<entry, schedVars, ctlVars, ctl, portVars, delay, roundLog, timerVars,
                       stage, last>>

BoolParams == {"encoder", "backlash", "servo"}

BoolCommand(param, axis, b) ==
    IF param = "encoder" THEN "ENCODER " \o axis \o ", " \o PyIntOfBool(b)
    ELSE IF param = "backlash" THEN "BL" \o axis \o "H, " \o PyIntOfBool(b)
    ELSE "SERVO " \o axis \o ", " \o PyIntOfBool(b)

BoolAttrMutCopied(param) ==
    IF param = "encoder" THEN "_encoders" ELSE "_backlash"

\* the attribute each of these setters assigns (lines 275, 282, 296)
BoolAttr(param) ==
    IF param = "encoder" THEN "_encoders"
    ELSE IF param = "backlash" THEN "_backlash" ELSE "_servo"

\* the setters of encoder, backlash and servo, lines 271-282 and 292-296
StageSetBool(param, b) ==
    \E r \in AckResponses \cup {ReadFailed} :
        /\ StageCallStart(param, b, r)
        /\ SetCommand(BoolCommand(param, stage.axis, b), r)
        /\ IF SetReturns(r)
              THEN /\ Store(BoolAttr(param), PyBool(b))
                   /\ last' = "set" /\ UNCHANGED pc
              ELSE UNCHANGED <<stage, last>>
        /\ UNCHANGED <<entry, schedVars, ctlVars, ctl, portVars, delay, roundLog, timerVars>>

\* the setter of axis, lines 213-216: the name is tested and stored nowhere
StageSetAxis(a) ==
    /\ pc = "idle" /\ calls < MaxCalls
    /\ call' = [op |-> "axis", param |-> "axis", value |-> a, n |-> Len(sent)]
    /\ calls' = calls + 1
    /\ IF a \in {STAGE_AXES[i] : i \in 1 .. Len(STAGE_AXES)}
          THEN last' = "axis" /\ UNCHANGED <<pc, exc, errLog>>
          ELSE /\ Raise(ErrAxis)
               /\ errLog' = Append(errLog, "Stage axis " \o a \o " not recognized")
               /\ UNCHANGED last
    /\ UNCHANGED <<entry, schedVars, ctlVars, ctl, portVars, delay, roundLog, timerVars,
                   sent, ret, stage>>

InitStage ==
    /\ entry = "stage"
    /\ pc = "start"
    /\ exc = "none"
    /\ nPos = 0 /\ numImages = 0 /\ nTrig = 0
    /\ position = <<>> /\ counter = <<>> /\ cache = <<>>
    /\ written = <<>> /\ events = <<>> /\ visitLog = <<>> /\ rounds = 0
    /\ InitClient
    /\ pathSet = FALSE
    /\ InitCtlIdle
    /\ InitExt
    /\ sent = <<>>
    /\ ctl = "ready"
    /\ ret = "none"

NextStage ==
    \/ \E cfg \in StageConfigs : StageNew(cfg)
    \/ \E v \in RangeValues : StageSetMaxSpeed(v)
    \/ \E param \in {"acceleration", "s_curve"}, v \in RangeValues :
          StageSetAccelOrCurve(param, v)
    \/ \E v \in WindowValues : StageSetEncoderWindow(v)
    \/ \E param \in BoolParams, b \in BOOLEAN : StageSetBool(param, b)
    \/ \E a \in AxisValues : StageSetAxis(a)

SpecStage == InitStage /\ [][NextStage]_vars

\* ------------------- the pacing of the round loop (SpecPace)

PaceLogEvery == 30

\* manager.delay_s
Delays == {0, 1, 3, PaceLogEvery}

\* acquire(manager), lines 395-398 and 413-414, with the time kept: the
\* test of the round loop and the Timeout of the round
PaceLoopTest ==
    /\ pc = "start" /\ entry = "pace"
    /\ IF ManagerActive
          THEN /\ rounds' = rounds + 1
               /\ tmo' = now
               /\ roundLog' = Append(roundLog, now)
               /\ pc' = "pace_acquire"
               /\ UNCHANGED exc
          ELSE /\ UNCHANGED <<rounds, tmo, roundLog>>
               /\ IF nPos > 0 THEN Raise(ErrPathNone)
                              ELSE pc' = "done" /\ UNCHANGED exc
    /\ UNCHANGED <<entry, nPos, numImages, nTrig, position, counter, cache,
                   written, events, visitLog, pathSet, cliVars, sent, ctl, ret,
                   now, polls, axesLog, gotoLog, portVars, errLog, stage, delay,
                   timerVars>>

\* line 401 with a manager whose acquire() returns: it runs
\* AcquisitionObject.acquire of every active position, which has no trigger
\* and adds one to the counter (line 127), while d seconds pass
PaceAcquire(d) ==
    /\ pc = "pace_acquire"
    /\ counter' = [s \in Slots |-> IF Active(s) THEN counter[s] + 1 ELSE counter[s]]
    /\ now' = now + d
    /\ pc' = "pace"
    /\ UNCHANGED <<entry, exc, nPos, numImages, nTrig, position, cache,
                   written, events, visitLog, rounds, pathSet, cliVars, sent, ctl,
                   ret, tmo, polls, axesLog, gotoLog, extVars>>

\* line 407
Remaining(start, t, delay_s) == delay_s - Elapsed(start, t)

\* lines 406-410: one turn of "while timeout.active"; time.sleep(1) is
\* inside the test of line 408, so the loop sleeps only when the remaining
\* time is a multiple of 30 s, and spins otherwise
PaceIter(d) ==
    /\ pc = "pace"
    /\ TimeoutActive(tmo, now, delay)
    /\ (Remaining(tmo, now, delay) % PaceLogEvery = 0) => d >= 1
    /\ now' = now + d
    /\ UNCHANGED <<entry, pc, exc, schedVars, cliVars, sent, ctl, ret,
                   tmo, polls, axesLog, gotoLog, extVars>>

\* line 406: the window is over, the round loop tests manager.active again
PaceExit ==
    /\ pc = "pace"
    /\ ~TimeoutActive(tmo, now, delay)
    /\ pc' = "start"
    /\ UNCHANGED <<entry, exc, schedVars, ctlVars, cliVars, sent, ctl, ret, extVars>>

InitPace ==
    /\ entry = "pace"
    /\ pc = "start"
    /\ exc = "none"
    /\ InitPlan
    /\ nTrig = 0
    /\ InitClient
    /\ pathSet = FALSE
    /\ InitCtlIdle
    /\ tx = <<>> /\ rx = <<>> /\ chanLog = <<>> /\ errLog = <<>>
    /\ stage = NoStage
    /\ delay \in Delays
    /\ roundLog = <<>>
    /\ mono = 0
    /\ activeLog = <<>>
    /\ sent = <<>>
    /\ ctl = "none"
    /\ ret = "none"

NextPace ==
    \/ PaceLoopTest
    \/ \E d \in 0 .. MaxStep : PaceAcquire(d)
    \/ \E d \in 0 .. MaxStep : PaceIter(d)
    \/ PaceExit

SpecPace == InitPace /\ [][NextPace]_vars

\* the program keeps running and its clock keeps advancing
SpecPaceFair == SpecPace /\ WF_vars(NextPace)

\* ------------------------ the Timeout object on its own (SpecTimer)

\* timeout_seconds of the Timeout objects the program creates
TimerSeconds == {1, 3, TimeoutDefault}

\* Timeout.__init__, lines 90-91: _start is time.time() and _timeout the
\* argument; delay holds timeout_seconds as at acquire.py line 398
TimerNew ==
    /\ pc = "start" /\ entry = "timer"
    /\ tmo' = now
    /\ pc' = "idle"
    /\ UNCHANGED <<entry, exc, schedVars, cliVars, sent, ctl, ret, now, polls,
                   axesLog, gotoLog, extVars>>

\* d seconds pass: time.time() follows
TimerTick(d) ==
    /\ pc = "idle" /\ entry = "timer"
    /\ mono + d <= MaxTime
    /\ now' = now + d
    /\ mono' = mono + d
    /\ UNCHANGED <<entry, pc, exc, schedVars, cliVars, sent, ctl, ret, tmo, polls,
                   axesLog, gotoLog, portVars, errLog, stage, delay, roundLog,
                   activeLog>>

\* time.time() (line 99) is the system clock: when the clock is set, by the
\* operator or the time service, it jumps by a seconds and no time passes
ClockAdjust(a) ==
    /\ pc = "idle" /\ entry = "timer"
    /\ a # 0
    /\ Elapsed(tmo, now + a) - mono \in (0 - MaxSkew) .. MaxSkew
    /\ now' = now + a
    /\ UNCHANGED <<entry, pc, exc, schedVars, cliVars, sent, ctl, ret, tmo, polls,
                   axesLog, gotoLog, extVars>>

\* Timeout.active, lines 93-99, read by the owner of the Timeout
TimerActive ==
    /\ pc = "idle" /\ entry = "timer"
    /\ Len(activeLog) < MaxReads
    /\ activeLog' = Append(activeLog,
                       [active  |-> TimeoutActive(tmo, now, delay),
                        elapsed |-> Elapsed(tmo, now)])
    /\ UNCHANGED <<entry, pc, exc, schedVars, cliVars, sent, ctl, ret, ctlVars,
                   portVars, errLog, stage, delay, roundLog, mono>>

InitTimer ==
    /\ entry = "timer"
    /\ pc = "start"
    /\ exc = "none"
    /\ nPos = 0 /\ numImages = 0 /\ nTrig = 0
    /\ position = <<>> /\ counter = <<>> /\ cache = <<>>
    /\ written = <<>> /\ events = <<>> /\ visitLog = <<>> /\ rounds = 0
    /\ InitClient
    /\ pathSet = FALSE
    /\ InitCtlIdle
    /\ tx = <<>> /\ rx = <<>> /\ chanLog = <<>> /\ errLog = <<>>
    /\ stage = NoStage
    /\ delay \in TimerSeconds
    /\ roundLog = <<>>
    /\ mono = 0
    /\ activeLog = <<>>
    /\ sent = <<>>
    /\ ctl = "none"
    /\ ret = "none"

NextTimer ==
    \/ TimerNew
    \/ \E d \in 1 .. MaxStep : TimerTick(d)
    \/ \E a \in (0 - MaxSkew) .. MaxSkew : ClockAdjust(a)
    \/ TimerActive

SpecTimer == InitTimer /\ [][NextTimer]_vars

\* ------------------ the run interrupted from outside (SpecIntr)

ErrInterrupt == "KeyboardInterrupt"

\* the operator interrupts the process: KeyboardInterrupt is raised at the
\* point the program has reached, and no try statement, finally clause or
\* signal handler of acquire.py receives it. When the interpreter exits
\* SerialWrapper.__del__ (utils.py lines 50-53) closes the port if it is
\* called, which Python does not promise for objects alive at exit
Interrupt ==
    /\ pc \notin {"crashed", "done"}
    /\ Raise(ErrInterrupt)
    /\ \E closed \in BOOLEAN :
          chanLog' = IF closed THEN Append(chanLog, [op |-> "close", k |-> 0])
                     ELSE chanLog
    /\ UNCHANGED <<entry, schedVars, ctlVars, cliVars, sent, ctl, ret, tx, rx,
                   errLog, stage, delay, roundLog, timerVars>>

NextIntr ==
    \/ NextSlot
    \/ Interrupt

SpecIntr == InitSlot /\ [][NextIntr]_vars

\* ------------------------------------------------------------ claims

RunEnded == pc \in {"done", "crashed"}

\* the exceptions a device or its channel causes
DeviceError == exc \in {ErrNotStandard, ErrRead, ErrMoveFailed, ErrValue}

IsMove(cmd) == Len(cmd) >= 2 /\ SubSeq(cmd, 1, 2) = "G "

MoveCommands == SelectSeq(sent, IsMove)

IsMoveEvent(e) == e[1] = "move"
IsTriggerEvent(e) == e[1] = "trigger"

Moves == SelectSeq(events, IsMoveEvent)

VisitsOf(s) == Cardinality({i \in 1 .. Len(visitLog) : visitLog[i][1] = s})

TriggersOf(s) ==
    Cardinality({i \in 1 .. Len(events) :
                    IsTriggerEvent(events[i]) /\ events[i][2] = s})

WrittenNames == {written[i][1] : i \in 1 .. Len(written)}

\* C1: a run of acquire(manager) over N >= 1 slots with num_images = k that
\* meets no device error ends normally with every slot visited k times, its
\* trigger sequence run k times, its counter at k and the manager inactive.
C1_SchedulerTermination ==
    (RunEnded /\ ~DeviceError /\ nPos >= 1 /\ numImages >= 1) =>
        /\ pc = "done"
        /\ ~ManagerActive
        /\ \A s \in Slots :
              /\ counter[s] = numImages
              /\ VisitsOf(s) = numImages
              /\ TriggersOf(s) = numImages * nTrig

\* C2: when a run ends without a device error the files handed to the writer
\* are exactly one per (slot, trigger, round) with round in 0..k-1, none
\* missing and none written twice.
C2_OneFilePerShot ==
    (RunEnded /\ ~DeviceError) =>
        /\ WrittenNames = {ChannelFn(s, t, r) :
                              s \in Slots, t \in 0 .. (nTrig - 1),
                              r \in 0 .. (numImages - 1)}
        /\ Len(written) = Cardinality(WrittenNames)

\* C3: no cache entry outlives its round: when an active slot starts the
\* trigger sequence of a round its cache is empty.
C3_CacheEmptyAtRoundStart ==
    (pc = "acq" /\ call.t = 0 /\ Active(call.slot)) => cache[call.slot] = <<>>

\* C4: after the drain step, AcquisitionManager.write_image, the cache of
\* every slot of the plan is empty, a slot that has reached num_images
\* included.
C4_DrainCoversEverySlot ==
    (/\ pc = "idle" /\ last = "write_image"
     /\ \A s \in Slots : counter[s] <= numImages) =>
        \A s \in Slots : cache[s] = <<>>

C6_HandshakeFailure ==
    /\ (ret \notin {"none", DEVICE_OK, ReadFailed}) =>
          (pc = "crashed" /\ exc = ErrNotStandard /\ ctl = "failed")
    /\ (ctl = "failed") =>
          /\ \A i \in 1 .. Len(sent) : sent[i] = "COMP\r"
          /\ MoveCommands = <<>>

C6_Witness ==
    /\ ret = "1\r" /\ pc = "crashed" /\ exc = ErrNotStandard
    /\ sent = <<"COMP\r">>

\* the busy values one finished goto read, in order
QueriesOf(g) == Append(g.loop, g.busy)

GotoMoveText(p) ==
    "G " \o ToString(p[1]) \o ", " \o ToString(p[2]) \o ", " \o ToString(p[3]) \o "\r"

GotoSendsOneMove ==
    /\ Len(MoveCommands) = Len(gotoLog) + (IF call.op = "goto" THEN 1 ELSE 0)
    /\ \A i \in 1 .. Len(gotoLog) : MoveCommands[i] = GotoMoveText(gotoLog[i].pos)
    /\ (call.op = "goto") => MoveCommands[Len(MoveCommands)] = GotoMoveText(call.pos)
    /\ \A i \in 1 .. Len(gotoLog) :
          (gotoLog[i].pos = <<10, -20, 35>>) => MoveCommands[i] = "G 10, -20, 35\r"

\* C7 as stated: goto sends exactly one move command with the coordinates in
\* X, Y, Z order, and a goto that returns has polled until three busy
\* queries in a row returned zero.
C7_ThreeZeroPolls ==
    /\ GotoSendsOneMove
    /\ \A i \in 1 .. Len(gotoLog) :
          ~gotoLog[i].raised =>
             LET q == QueriesOf(gotoLog[i]) n == Len(QueriesOf(gotoLog[i]))
             IN  n >= 3 /\ ~q[n] /\ ~q[n - 1] /\ ~q[n - 2]

\* C7 amended: goto sends exactly one move command with the coordinates in
\* X, Y, Z order; its polling loop ends at the first busy query that returns
\* zero or after which the timeout window is no longer active, and goto then
\* issues exactly one more busy query.
C7_GotoPolling ==
    /\ GotoSendsOneMove
    /\ \A i \in 1 .. Len(gotoLog) :
          LET g == gotoLog[i] n == Len(gotoLog[i].loop)
          IN  /\ n >= 1
              /\ \A j \in 1 .. (n - 1) : g.loop[j]
              /\ ~g.loop[n] \/ ~g.exitActive
              /\ g.queries = n + 1

C7_Witness ==
    \E i \in 1 .. Len(gotoLog) :
        /\ ~gotoLog[i].raised
        /\ gotoLog[i].pos = <<10, -20, 35>>
        /\ gotoLog[i].loop = <<TRUE, FALSE>>
        /\ ~gotoLog[i].busy
        /\ pc = "idle"

\* C8: a goto whose last test finds the stage busy and the timeout window
\* expired raises the move failure, which ends the run: its move is the last
\* event, no move and no trigger follows.
C8_TimeoutFatal ==
    \A i \in 1 .. Len(gotoLog) :
        (gotoLog[i].busy /\ ~gotoLog[i].active) =>
            /\ i = Len(gotoLog)
            /\ pc = "crashed" /\ exc = ErrMoveFailed
            /\ Len(Moves) = i
            /\ events[Len(events)] = <<"move", gotoLog[i].pos>>

C8_Witness ==
    /\ pc = "crashed" /\ exc = ErrMoveFailed
    /\ Len(events) >= 2
    /\ IsTriggerEvent(events[1])
    /\ IsMoveEvent(events[Len(events)])
    /\ gotoLog[Len(gotoLog)].busy /\ ~gotoLog[Len(gotoLog)].active

BitSet(status, i) == (status \div Pow2(i)) % 2 = 1

\* C9: for a response whose axis values sum to a status in 0..7, busy is
\* true iff the status is not zero, and the axes reported as moving are
\* those of X, Y, Z (bits 0, 1, 2) whose bit is set in the status.
C9_BusyDecoding ==
    (/\ polls # <<>>
     /\ ret \in BusyResponses
     /\ BusyOf[ret].parses
     /\ BusyOf[ret].status \in 0 .. 7) =>
        /\ polls[Len(polls)] = (BusyOf[ret].status # 0)
        /\ axesLog = {STAGE_AXES[i + 1] : i \in {j \in 0 .. 2 : BitSet(BusyOf[ret].status, j)}}

\* C10: with 2 slots, 2 triggers and num_images = 1 a run writes exactly the
\* 4 files of (trigger, slot) = (0,0), (1,0), (0,1), (1,1) at time 0, and its
\* last move targets the position of slot 0.
C10_EndToEnd ==
    (RunEnded /\ ~DeviceError /\ nPos = 2 /\ nTrig = 2 /\ numImages = 1) =>
        /\ Len(written) = 4
        /\ WrittenNames =
             {"data/Pos0/img_channel000_position000_time000000000_z000.tif",
              "data/Pos0/img_channel001_position000_time000000000_z000.tif",
              "data/Pos1/img_channel000_position001_time000000000_z000.tif",
              "data/Pos1/img_channel001_position001_time000000000_z000.tif"}
        /\ Moves # <<>>
        /\ Moves[Len(Moves)] = <<"move", position[0]>>

IsTTL(cmd) == Len(cmd) >= 4 /\ SubSeq(cmd, 1, 4) = "TTL "

IsRead(e) == e.op = "read"

\* C11: flush discards any response: a line that is in the input buffer when
\* flush is called is never returned by a later read, and no send_and_receive
\* returns a line the controller produced for a TTL pulse command.
C11_FlushDiscardsResponses ==
    /\ \A i \in 1 .. Len(chanLog) : \A j \in (i + 1) .. Len(chanLog) :
          (chanLog[i].op = "flush" /\ IsRead(chanLog[j])) =>
              chanLog[j].of \notin chanLog[i].pending
    /\ \A j \in 1 .. Len(chanLog) :
          (IsRead(chanLog[j]) /\ chanLog[j].of > 0) => ~IsTTL(sent[chanLog[j].of])

TTLText(pin, state) ==
    "TTL " \o ToString(pin) \o ", " \o (IF state THEN "1" ELSE "0") \o "\r"

\* C12: a TTL pulse is accepted only for a pin in [0,4): for an accepted pulse
\* exactly one command "TTL pin, state" is handed to the port, then flush is
\* called, and nothing is read; for another pin the assertion fails and
\* nothing is written to the port.
C12_TTLPulse ==
    (call.op = "TTL") =>
        /\ \A i \in (call.at + 1) .. Len(chanLog) :
              chanLog[i].op \notin {"read", "read_failed"}
        /\ (call.pin \notin 0 .. 3) =>
              /\ pc = "crashed" /\ exc = ErrAssert
              /\ Len(chanLog) = call.at
        /\ (call.pin \in 0 .. 3) =>
              /\ Len(chanLog) >= call.at + 1
              /\ chanLog[call.at + 1].op \in {"write", "write_timeout", "write_error"}
              /\ sent[chanLog[call.at + 1].k] = TTLText(call.pin, call.state)
              /\ (call.pin = 3 /\ call.state) => sent[chanLog[call.at + 1].k] = "TTL 3, 1\r"
              /\ (pc = "ttl_flush") => Len(chanLog) = call.at + 1
              /\ (pc = "crashed") =>
                    /\ exc = ErrSerialWrite
                    /\ Len(chanLog) = call.at + 1
                    /\ chanLog[call.at + 1].op = "write_error"
              /\ (pc = "idle") =>
                    /\ Len(chanLog) = call.at + 2
                    /\ chanLog[call.at + 1].op # "write_error"
                    /\ chanLog[call.at + 2].op = "flush"

C12_Witness ==
    /\ pc = "idle" /\ last = "TTL"
    /\ call.op = "TTL" /\ call.pin = 3 /\ call.state
    /\ call.at > 0
    /\ sent[Len(sent)] = "TTL 3, 1\r"
    /\ chanLog[Len(chanLog)].op = "flush"

EndsWithOneCR(cmd) ==
    /\ Len(cmd) >= 1
    /\ SubSeq(cmd, Len(cmd), Len(cmd)) = "\r"
    /\ (Len(cmd) >= 2) => SubSeq(cmd, Len(cmd) - 1, Len(cmd) - 1) # "\r"

\* C13: every byte string handed to the port ends with exactly one carriage
\* return, whether the command ended with none, one or several.
C13_SingleTerminator ==
    \A i \in 1 .. Len(sent) : EndsWithOneCR(sent[i])

TransportErrors == {ErrSerialWrite, ErrSerialRead}

\* C14: when the read of a response fails, send_and_receive ends with a
\* transport error raised to its caller and returns no value.
C14_ReadFailureSignalled ==
    \A i \in 1 .. Len(chanLog) :
        (chanLog[i].op = "read_failed") =>
            /\ pc = "crashed" /\ exc \in TransportErrors
            /\ i = Len(chanLog)

\* C15: a write that fails ends the call with a transport error raised to
\* its caller, and send_and_receive reads nothing after it.
C15_WriteFailurePropagates ==
    \A i \in 1 .. Len(chanLog) :
        (chanLog[i].op \in {"write_timeout", "write_error"}) =>
            /\ pc = "crashed" /\ exc \in TransportErrors
            /\ \A j \in (i + 1) .. Len(chanLog) :
                  chanLog[j].op \notin {"read", "read_failed"}

\* the parameter-set commands of a configuration, in the order speed,
\* acceleration, curve, encoder, encoder window, servo, backlash
ConfigCommands(cfg) ==
    IF cfg = "H117EX"
      THEN <<"SMS, 100\r", "SAS, 100\r", "SCS, 100\r", "ENCODER S, 1\r">>
      ELSE <<"SMZ, 100\r", "SAZ, 100\r", "SCZ, 100\r", "ENCODER Z, 1\r",
             "ENCW Z, 1\r", "SERVO Z, 1\r", "BLZH, 0\r">>

\* C16: building a stage object for a configured axis sends the
\* parameter-set commands of the configuration in the order speed,
\* acceleration, curve, encoder, encoder window, servo, backlash, each with
\* the axis of the configuration and the configured value; and a speed,
\* acceleration or curve setter that returns has sent SM/SA/SC{axis}, v.
C16_ConfigCommandOrder ==
    /\ (entry = "stage" /\ pc = "idle" /\ calls = 0) =>
          sent = ConfigCommands(stage.config)
    /\ (/\ entry = "stage" /\ pc = "idle" /\ last = "set"
        /\ call.param \in {"max_speed", "acceleration", "s_curve"}) =>
          sent[Len(sent)] =
              (IF call.param = "max_speed" THEN "SM"
               ELSE IF call.param = "acceleration" THEN "SA" ELSE "SC")
              \o ConfigAxis(stage.config) \o ", " \o ToString(call.value) \o "\r"

SetWasSent == call.op = "set" /\ Len(sent) > call.n

C18_ValidationBeforeSend ==
    (call.op = "set" /\ call.param \in {"max_speed", "acceleration", "s_curve",
                                        "encoder_window"}) =>
        LET inside == IF call.param = "encoder_window"
                        THEN call.value > 1 /\ call.value <= 2
                        ELSE call.value > 0 /\ call.value <= 100
        IN  /\ ~inside => (pc = "crashed" /\ Len(sent) = call.n)
            /\ (inside /\ call.r = DEVICE_OK) => (pc = "idle" /\ Len(sent) = call.n + 1)

\* C19: a joystick enable or disable command that is not acknowledged is
\* logged as an error and the function returns normally: no exception is
\* raised and the controller takes the next command; only a failure of the
\* port itself ends the call with an exception.
C19_JoystickRecoverable ==
    (call.op = "joystick") =>
        /\ (pc = "idle") =>
              /\ exc = "none" /\ ctl = "ready" /\ last = "joystick"
              /\ (ret # "0\r") =>
                    /\ Len(errLog) = call.errs + 1
                    /\ errLog[Len(errLog)] =
                          (IF call.cmd = "J" THEN "Joystick enable failed."
                           ELSE "Joystick disable failed.")
              /\ (ret = "0\r") => Len(errLog) = call.errs
        /\ (pc = "crashed") => exc \in {ErrSerialWrite, ErrRead}

C19_Witness ==
    /\ pc = "idle" /\ exc = "none"
    /\ calls = 2
    /\ call.op = "send_and_receive"
    /\ errLog = <<"Joystick disable failed.">>
    /\ sent = <<"H\r", "G 0, 0, 0\r">>
    /\ ret = "0\r"
    /\ chanLog[Len(chanLog)].op = "read" /\ chanLog[Len(chanLog)].of = 2

RoundsSpaced ==
    \A i \in 1 .. (Len(roundLog) - 1) : roundLog[i + 1] - roundLog[i] >= delay

WindowOverAtRoundStart ==
    (pc = "start" /\ roundLog # <<>>) => now - roundLog[Len(roundLog)] >= delay

C21_ExpiryMonotonic ==
    /\ \A i \in 1 .. Len(activeLog) :
          activeLog[i].active <=> (activeLog[i].elapsed < delay)
    /\ \A i \in 1 .. Len(activeLog) : \A j \in (i + 1) .. Len(activeLog) :
          ~activeLog[i].active => ~activeLog[j].active

CacheNames(s) == {cache[s][i][1] : i \in 1 .. Len(cache[s])}

\* C22: when a trigger raises in the middle of the trigger sequence of an
\* active slot, the slot's round is aborted: the slot's counter is not
\* incremented, no image of the aborted round is left in the slot's cache or
\* written to disk, and the slot is still active.
C22_TriggerFailureAbortsRound ==
    (exc = ErrTrigger /\ call.n < numImages) =>
        /\ counter[call.slot] = call.n
        /\ Active(call.slot)
        /\ \A t \in 0 .. (nTrig - 1) :
              ChannelFn(call.slot, t, call.n) \notin
                  (CacheNames(call.slot) \cup WrittenNames)

\* the slot the scheduler rests at: the first slot that is still active, the
\* global first slot when none is
RestSlot == IF ActiveSlots # {} THEN MinOf(ActiveSlots) ELSE 0

\* C23: when AcquisitionManager.acquire ends its loop over the active slots
\* without a visit having failed, it has sent one more move, whose target is
\* the position of the first slot still active, or of the global first slot
\* when no slot remains active.
C23_RestMove ==
    [][(/\ pc = "mgr_acquire" /\ pc' # "mgr_acquire"
        /\ nPos > 0 /\ numImages > 0
        /\ exc' # ErrGotoArgs) =>
            /\ Len(Moves') > Len(Moves)
            /\ events'[Len(events')] = <<"move", position[RestSlot']>>]_vars

\* the events of one visit of slot s start at index m of the log: the move
\* to the slot's position, then its triggers in sequence order
VisitEventsAt(s, m) ==
    /\ m + nTrig <= Len(events)
    /\ events[m] = <<"move", position[s]>>
    /\ \A t \in 0 .. (nTrig - 1) : events[m + 1 + t] = <<"trigger", s, t>>

\* C24: within a round the active slots are visited in increasing slot-id
\* order, and a visit that meets no device or trigger failure moves to the
\* slot's position, then invokes the triggers in sequence order, each
\* appending its (filename, image) pair to the slot's cache, then increments
\* the slot's counter by one.
C24_VisitOrder ==
    /\ \A i \in 1 .. Len(visitLog) : \A j \in (i + 1) .. Len(visitLog) :
          (visitLog[i][2] = visitLog[j][2]) => visitLog[i][1] < visitLog[j][1]
    /\ \A i \in 1 .. Len(visitLog) :
          LET s == visitLog[i][1]
              n == visitLog[i][2]
          IN  (/\ n < visitLog[i][3]
               /\ ~DeviceError /\ exc \notin {ErrTrigger, ErrPathNone}) =>
                 /\ \E m \in 1 .. Len(events) : VisitEventsAt(s, m)
                 /\ \A t \in 0 .. (nTrig - 1) :
                       ChannelFn(s, t, n) \in (CacheNames(s) \cup WrittenNames)
                 /\ counter[s] = n + 1

\* C25: when the run is interrupted from outside, here while the trigger
\* sequence of a slot is under way and has put an image in the cache, then
\* before the process ends the pending cache of every slot is flushed to
\* storage, the stage is commanded to the rest position and the port is
\* closed.
C25_CleanShutdown ==
    (exc = ErrInterrupt /\ call.op = "acquire" /\ call.t > 0) =>
        /\ \A s \in Slots : cache[s] = <<>>
        /\ Moves # <<>>
        /\ Moves[Len(Moves)] = <<"move", position[RestSlot]>>
        /\ chanLog # <<>>
        /\ chanLog[Len(chanLog)].op = "close"

\* C26: goto returns normally only when the stage is idle: for every
\* sequence of busy responses and every timing of the timeout window, the
\* last busy query of a goto that returned without raising read status zero.
C26_ReturnsOnlyWhenIdle ==
    \A i \in 1 .. Len(gotoLog) :
        ~gotoLog[i].raised =>
            /\ ~gotoLog[i].busy
            /\ ~QueriesOf(gotoLog[i])[Len(QueriesOf(gotoLog[i]))]

\* C27: busy returns False only when a status line with at least one axis
\* value, all of them zero, was received; an empty response (the read timed
\* out) is never taken as "not busy", and no goto returns on one.
C27_SilenceIsNotIdle ==
    /\ (/\ polls # <<>>
        /\ ret \in BusyResponses
        /\ BusyOf[ret].parses
        /\ ~polls[Len(polls)]) =>
           /\ ret # ""
           /\ Len(Split(ret)) >= 1
           /\ \A i \in 1 .. Len(Split(ret)) : IntOf(Split(ret)[i]) = 0
    /\ (pc = "idle" /\ last = "goto") => ret # ""

\* what the constructor of the controller has sent when it returns: COMP,
\* then TTL low for the pins 0..3 in order
ConstructorCommands ==
    <<"COMP\r">> \o [p \in 1 .. NumTTLPins |-> TTLText(p - 1, FALSE)]

\* C28: when the COMP handshake is acknowledged the construction of the
\* controller completes, having sent a TTL low command for each of the pins
\* 0, 1, 2, 3 in that order after the handshake and before any move command.
C28_ConstructorResetsTTL ==
    (/\ entry = "main" /\ ret = DEVICE_OK
     /\ pc \notin {"start", "comp", "ttl_reset"}) =>
        /\ ctl = "ready" /\ exc # ErrDeprecated
        /\ Len(sent) >= Len(ConstructorCommands)
        /\ SubSeq(sent, 1, Len(ConstructorCommands)) = ConstructorCommands
        /\ ConstructorCommands =
              <<"COMP\r", "TTL 0, 0\r", "TTL 1, 0\r", "TTL 2, 0\r", "TTL 3, 0\r">>

\* the parameter whose setter owns a stored attribute
OwnerOf(attr) ==
    CASE attr = "_max_speed"    -> "max_speed"
      [] attr = "_acceleration" -> "acceleration"
      [] attr = "_s_curve"      -> "s_curve"
      [] attr = "_encoders"     -> "encoder"
      [] attr = "_backlash"     -> "backlash"
      [] attr = "_servo"        -> "servo"

\* C29: a stored parameter of a stage object changes only in a call of that
\* parameter's own setter whose command was sent and acknowledged, and then
\* no other stored parameter changes; a setter whose validation fails or
\* whose command is not acknowledged leaves every stored parameter as it was.
C29_StoredOnlyAfterAck ==
    [][(entry = "stage" /\ pc = "idle") =>
          /\ (pc' = "crashed") => stage' = stage
          /\ \A a \in StageAttrs :
                (stage'.attrs[a] # stage.attrs[a]) =>
                    /\ call'.op = "set" /\ call'.param = OwnerOf(a)
                    /\ Len(sent') = Len(sent) + 1
                    /\ ret' = DEVICE_OK
                    /\ pc' = "idle" /\ exc' = "none"
                    /\ \A b \in StageAttrs \ {a} : stage'.attrs[b] = stage.attrs[b]]_vars

C29_Witness ==
    /\ entry = "stage" /\ pc = "idle" /\ calls = 2
    /\ call.op = "set" /\ call.param = "servo"
    /\ stage.attrs["_max_speed"] = "100"
    /\ stage.attrs["_servo"] = "True"
    /\ stage.attrs["_backlash"] = "unset"

\* every (filename, image) pair appended to a cache so far: those already
\* handed to the writer and those still in the caches
AllEntries == written \o CachesOf(Slots)

\* the round of the trigger event at index k of the log: the number of
\* earlier invocations of the same trigger for the same slot
RoundOfEvent(k) == Cardinality({m \in 1 .. (k - 1) : events[m] = events[k]})

\* C30: over a whole run the filenames appended to caches are pairwise
\* distinct: each is the name of the (slot id, trigger index, round) of its
\* trigger invocation, and no two entries, which differ in slot id, trigger
\* index or round, have the same path.
C30_FilenamesDistinct ==
    /\ \A i \in 1 .. Len(AllEntries) : \A j \in (i + 1) .. Len(AllEntries) :
          AllEntries[i][1] # AllEntries[j][1]
    /\ \A i \in 1 .. Len(AllEntries) :
          LET k == AllEntries[i][2]
          IN  /\ IsTriggerEvent(events[k])
              /\ AllEntries[i][1] =
                    ChannelFn(events[k][2], events[k][3], RoundOfEvent(k))

C30_Witness ==
    /\ nPos >= 1 /\ nTrig = 2 /\ counter[0] = 2
    /\ Len(AllEntries) = 4
    /\ AllEntries[1][1] = "data/Pos0/img_channel000_position000_time000000000_z000.tif"
    /\ AllEntries[4][1] = "data/Pos0/img_channel001_position000_time000000001_z000.tif"

====
